---- MODULE Spec2Model ----
(***************************************************************************)
(* A model of the word-model core of espells: the dictionary entry (Word), *)
(* its data-segment parser and form generator, the decomposition           *)
(* hypothesis (AffixForm) and the tagged word handle (LKWord).             *)
(*                                                                         *)
(* JavaScript strings are sequences of one-character strings.  An optional *)
(* value (undefined or a value) is a sequence of length 0 or 1.            *)
(***************************************************************************)
EXTENDS Integers, Sequences, FiniteSets, TLC

VARIABLES
    line,       \* the parsed segments of the .dic line given to new Word()
    word,       \* the Word instance
    heap,       \* the Set objects allocated for word.data, by reference
    aff,        \* the Aff ruleset: REP, AM, PFX, SFX
    pc,         \* "new" before the constructor has run, "ready" after
    similarTo,  \* the argument of the last forms() call
    res,        \* the array returned by the last forms() call
    words,      \* the argument of Word.flagSets()
    flagSetsRet,\* the Set returned by Word.flagSets()
    form,       \* the AffixForm instance (this)
    formCall,   \* the last call on form: its name and arguments
    formRet,    \* what that call returned
    lk,         \* the LKWord instance (this)
    lkCall,     \* the last call on lk: its name and arguments
    lkRet       \* what that call returned

vars == <<line, word, heap, aff, pc, similarTo, res, words, flagSetsRet,
          form, formCall, formRet, lk, lkCall, lkRet>>

wordVars == <<line, word, heap, aff, pc>>
formsVars == <<similarTo, res>>
flagSetsVars == <<words, flagSetsRet>>
affixFormVars == <<form, formCall, formRet>>
lkVars == <<lk, lkCall, lkRet>>

(***************************************************************************)
(* Bounds of the model.                                                    *)
(***************************************************************************)
\* the number of characters of the data segment's tokens (keys not counted)
MaxDataLen == 3
\* the length of a stem given to the form generator
MaxStemLen == 2
\* the length of a similarTo argument
MaxSimLen == 2
\* the number of entries given to flagSets
MaxWords == 3
\* the length of an LKWord's word
MaxWordLen == 2

(***************************************************************************)
(* Optional values and strings.                                            *)
(***************************************************************************)
None == <<>>
Some(x) == <<x>>

\* all strings over the characters cs of length lo..hi
Strs(cs, lo, hi) == UNION {[1..n -> cs] : n \in lo..hi}

Min(a, b) == IF a < b THEN a ELSE b
Max(a, b) == IF a > b THEN a ELSE b

\* String.prototype.slice(from, to): from and to are optional integers
JsSlice(s, from, to) ==
    LET n == Len(s)
        rel(o, dflt) == IF o = None THEN dflt
                        ELSE IF o[1] < 0 THEN Max(n + o[1], 0)
                        ELSE Min(o[1], n)
        st == rel(from, 0)
        en == rel(to, n)
    IN SubSeq(s, st + 1, en)

\* String.prototype.startsWith / endsWith
StartsWith(s, p) == Len(p) <= Len(s) /\ SubSeq(s, 1, Len(p)) = p
EndsWith(s, p) == Len(p) <= Len(s) /\ SubSeq(s, Len(s) - Len(p) + 1, Len(s)) = p

\* String.prototype.indexOf(p, from), 0-based, -1 when there is none
IndexOf(s, p, from) ==
    LET hits == {i \in from..(Len(s) - Len(p)) : SubSeq(s, i + 1, i + Len(p)) = p}
    IN IF hits = {} THEN -1 ELSE CHOOSE i \in hits : \A j \in hits : i <= j

\* String.prototype.includes
Includes(s, p) == IndexOf(s, p, 0) >= 0

\* String.prototype.split(sep) for a non-empty separator
RECURSIVE JsSplit(_, _)
JsSplit(s, sep) ==
    LET i == IndexOf(s, sep, 0)
    IN IF i < 0 THEN <<s>>
       ELSE <<SubSeq(s, 1, i)>> \o JsSplit(SubSeq(s, i + Len(sep) + 1, Len(s)), sep)

\* /^\d+$/.test(s)
Digits == {"0", "1", "2", "3", "4", "5", "6", "7", "8", "9"}
IsNumeric(s) == Len(s) > 0 /\ \A i \in 1..Len(s) : s[i] \in Digits

DigitVal(c) ==
    CASE c = "0" -> 0 [] c = "1" -> 1 [] c = "2" -> 2 [] c = "3" -> 3 [] c = "4" -> 4
      [] c = "5" -> 5 [] c = "6" -> 6 [] c = "7" -> 7 [] c = "8" -> 8 [] c = "9" -> 9

\* parseInt(s) of a string of digits
RECURSIVE ParseInt(_)
ParseInt(s) ==
    IF Len(s) = 0 THEN 0
    ELSE 10 * ParseInt(SubSeq(s, 1, Len(s) - 1)) + DigitVal(s[Len(s)])

(***************************************************************************)
(* The ruleset (Aff), as far as Word uses it.                              *)
(***************************************************************************)
\* new RepPattern(from, to)
RepPattern(from, to) == [pattern |-> from, replacement |-> to]

\* the morphology-alias table AM: an array of Sets of component strings
AMTable == << {<<"a">>, <<"a", "a">>}, {<<"a">>} >>

\* for (const str in obj): the enumerable string-keyed properties of obj.
\* The entries of AM are Set objects, which have none.
ForIn(obj) == <<>>

(***************************************************************************)
(* Word: the constructor.                                                  *)
(***************************************************************************)
PH == <<"p", "h">>
ARROW == <<"-", ">">>
STAR == <<"*">>

EmptyMap == [k \in {} |-> 0]

\* Map.prototype.set on a map of references
MapSet(m, k, v) == [x \in DOMAIN m \cup {k} |-> IF x = k THEN v ELSE m[x]]

\* the Map behind this.data, empty when this.data is undefined
DataMap(w) == IF w.data = None THEN EmptyMap ELSE w.data[1]

\* lines 70-72: this.data ??= new Map(); const set = this.data.get(lookup) ??
\* new Set(); this.data.set(key, set.add(value))
DataRecord(st, lookup, key, value) ==
    LET d == DataMap(st.word)
        found == lookup \in DOMAIN d
        ref == IF found THEN d[lookup] ELSE Len(st.heap) + 1
        h1 == IF found THEN st.heap ELSE Append(st.heap, {})
        h2 == [h1 EXCEPT ![ref] = @ \cup {value}]
    IN [st EXCEPT !.word.data = Some(MapSet(d, key, ref)), !.heap = h2]

\* aff.REP.add(pattern): REP is a Set and the pattern a new object
RepAdd(st, pat) == [st EXCEPT !.REP = Append(@, pat)]

PhDirectiveAltOnArrow(st, value, stem) ==
    LET alt == IF st.word.altSpellings = None THEN {} ELSE st.word.altSpellings[1]
    IN IF EndsWith(value, STAR)
       THEN RepAdd(st, RepPattern(JsSlice(value, Some(0), Some(-2)),
                                  JsSlice(stem, Some(0), Some(-1))))
       ELSE IF Includes(value, ARROW)
       THEN [RepAdd(st, RepPattern(JsSplit(value, ARROW)[1], JsSplit(value, ARROW)[2]))
               EXCEPT !.word.altSpellings = Some(alt \cup {value})]
       ELSE [RepAdd(st, RepPattern(value, stem))
               EXCEPT !.word.altSpellings = Some(alt \cup {value})]

PhDirectiveTrimsMarkerOnly(st, value, stem) ==
    LET alt == IF st.word.altSpellings = None THEN {} ELSE st.word.altSpellings[1]
    IN IF EndsWith(value, STAR)
       THEN RepAdd(st, RepPattern(JsSlice(value, Some(0), Some(-1)), stem))
       ELSE IF Includes(value, ARROW)
       THEN RepAdd(st, RepPattern(JsSplit(value, ARROW)[1], JsSplit(value, ARROW)[2]))
       ELSE [RepAdd(st, RepPattern(value, stem))
               EXCEPT !.word.altSpellings = Some(alt \cup {value})]

\* lines 75-92: the ph: directive
PhDirective(st, value, stem) ==
    IF EndsWith(value, STAR)
    THEN RepAdd(st, RepPattern(JsSlice(value, Some(0), Some(-2)),
                               JsSlice(stem, Some(0), Some(-1))))
    ELSE IF Includes(value, ARROW)
    THEN LET parts == JsSplit(value, ARROW)
         IN RepAdd(st, RepPattern(parts[1], parts[2]))
    ELSE LET alt == IF st.word.altSpellings = None THEN {}
                    ELSE st.word.altSpellings[1]
         IN [RepAdd(st, RepPattern(value, stem))
               EXCEPT !.word.altSpellings = Some(alt \cup {value})]

\* lines 67-93: a token that SPLIT_DATA_REGEX splits into key and value
KeyValue(st, key, value, stem) ==
    LET st1 == DataRecord(st, value, key, value)
    IN IF key = PH THEN PhDirective(st1, value, stem) ELSE st1

\* lines 96-100: the loop over the alias's properties
RECURSIVE AliasLoop(_, _, _)
AliasLoop(st, keyvalue, strs) ==
    IF Len(strs) = 0 THEN st
    ELSE AliasLoop(DataRecord(st, keyvalue, keyvalue, Head(strs)), keyvalue, Tail(strs))

\* lines 95-101: a token that is not key:value
MorphAlias(st, keyvalue, AM) ==
    IF IsNumeric(keyvalue) /\ (ParseInt(keyvalue) - 1) \in 0..(Len(AM) - 1)
    THEN AliasLoop(st, keyvalue, ForIn(AM[ParseInt(keyvalue)]))
    ELSE st

\* lines 63-102: one token of the data segment
ParseToken(st, tok, stem, AM) ==
    IF tok.kind = "kv" THEN KeyValue(st, tok.key, tok.text, stem)
    ELSE MorphAlias(st, tok.text, AM)

RECURSIVE ParseData(_, _, _, _)
ParseData(st, toks, stem, AM) ==
    IF Len(toks) = 0 THEN st
    ELSE ParseData(ParseToken(st, Head(toks), stem, AM), Tail(toks), stem, AM)

\* lines 46-104: new Word(line, aff); ln holds what SPLIT_WORD_REGEX,
\* aff.ignore and aff.parseFlags make of the line
WordNew(ln, a, h) ==
    ParseData([word |-> [stem |-> ln.stem, flags |-> ln.flags,
                         data |-> None, altSpellings |-> None],
               heap |-> h, REP |-> a.REP],
              ln.data, ln.stem, a.AM)

UnbuiltWord == [stem |-> <<>>, flags |-> None, data |-> None, altSpellings |-> None]

(***************************************************************************)
(* The lines given to the constructor.                                     *)
(***************************************************************************)
ValueChars == {"a", "*", "-", ">"}
RawChars == {"0", "1", "a"}
Keys == {PH, <<"a", "a">>}

\* the tokens whose text has n characters
TokensOfLen(n) ==
    {[kind |-> "kv", key |-> k, text |-> v] : k \in Keys, v \in Strs(ValueChars, n, n)}
    \cup {[kind |-> "raw", key |-> <<>>, text |-> t] : t \in Strs(RawChars, n, n)}

\* the token sequences whose texts have n characters in all
RECURSIVE TokenSeqs(_)
TokenSeqs(n) ==
    IF n = 0 THEN {<<>>}
    ELSE UNION {{<<t>> \o r : t \in TokensOfLen(k), r \in TokenSeqs(n - k)} : k \in 1..n}

DataStems == {<<"b">>, <<"a", "b">>}

DataLines ==
    {[stem |-> s, flags |-> None, data |-> d] :
        s \in DataStems, d \in UNION {TokenSeqs(n) : n \in 0..MaxDataLen}}

EmptyAff == [REP |-> <<>>, AM |-> AMTable,
             PFX |-> [f \in {} |-> <<>>], SFX |-> [f \in {} |-> <<>>]]

(***************************************************************************)
(* Values the variables of the other components rest at.                   *)
(***************************************************************************)
IdleForms == similarTo = None /\ res = <<>>
IdleFlagSets == words = <<>> /\ flagSetsRet = None
IdleAffixForm == form = <<>> /\ formCall = <<>> /\ formRet = <<>>
IdleLK == lk = <<>> /\ lkCall = <<>> /\ lkRet = <<>>
IdleWord ==
    /\ line = [stem |-> <<>>, flags |-> None, data |-> <<>>]
    /\ word = UnbuiltWord
    /\ heap = <<>>
    /\ aff = EmptyAff
    /\ pc = "idle"

(***************************************************************************)
(* Specification of the constructor.                                       *)
(***************************************************************************)
InitWord ==
    /\ line \in DataLines
    /\ word = UnbuiltWord
    /\ heap = <<>>
    /\ aff = EmptyAff
    /\ pc = "new"
    /\ IdleForms /\ IdleFlagSets /\ IdleAffixForm /\ IdleLK

Construct ==
    /\ pc = "new"
    /\ LET r == WordNew(line, aff, heap)
       IN /\ word' = r.word
          /\ heap' = r.heap
          /\ aff' = [aff EXCEPT !.REP = r.REP]
    /\ pc' = "ready"
    /\ UNCHANGED <<line, formsVars, flagSetsVars, affixFormVars, lkVars>>

NextWord == Construct

SpecWord == InitWord /\ [][NextWord]_vars

(***************************************************************************)
(* Word: forms().                                                          *)
(***************************************************************************)
RECURSIVE Flatten(_)
Flatten(ss) == IF Len(ss) = 0 THEN <<>> ELSE Head(ss) \o Flatten(Tail(ss))

\* toSet(): the elements in order of first occurrence
RECURSIVE ToSet(_)
ToSet(q) ==
    IF Len(q) = 0 THEN <<>>
    ELSE LET front == ToSet(SubSeq(q, 1, Len(q) - 1))
             last == q[Len(q)]
         IN IF \E i \in 1..Len(front) : front[i] = last THEN front
            ELSE Append(front, last)

\* Affix.relevant(stem): the rule's condition holds of the stem; a condition
\* is a string the stem is to start with (prefix) or end with (suffix)
Relevant(affix, stem) ==
    IF affix.kind = "PFX" THEN StartsWith(stem, affix.cond)
    ELSE EndsWith(stem, affix.cond)

\* lines 128-140: the rules licensed by the flags and relevant to the stem
Licensed(flags, table, stem) ==
    LET has == SelectSeq(flags, LAMBDA f : f \in DOMAIN table)
        sets == [i \in 1..Len(has) |-> table[has[i]]]
    IN ToSet(SelectSeq(Flatten(sets), LAMBDA x : Relevant(x, stem)))

\* the truthiness of an optional string: undefined and "" are falsy
Truthy(str) == str # None /\ Len(str[1]) > 0

\* line 144
SuffixSimilar(sim, suffix) == IF Truthy(sim) THEN EndsWith(sim[1], suffix.add) ELSE TRUE

\* line 148
PrefixSimilar(sim, prefix) == IF Truthy(sim) THEN StartsWith(sim[1], prefix.add) ELSE TRUE

CrossEligibleEither(prefix, suffix) == suffix.crossproduct \/ prefix.crossproduct

\* line 154
CrossEligible(prefix, suffix) == suffix.crossproduct /\ prefix.crossproduct

\* lines 162-163
SuffixForm(stem, suffix) ==
    LET root == IF Len(suffix.strip) > 0
                THEN JsSlice(stem, Some(0), Some(-Len(suffix.strip)))
                ELSE stem
    IN root \o suffix.add

\* lines 167-170
CrossForm(stem, prefix, suffix) ==
    LET root == IF Len(suffix.strip) > 0
                THEN JsSlice(stem, Some(Len(prefix.strip)), Some(-Len(suffix.strip)))
                ELSE JsSlice(stem, Some(Len(prefix.strip)), None)
    IN prefix.add \o root \o suffix.add

\* lines 174-175
PrefixForm(stem, prefix) == prefix.add \o JsSlice(stem, Some(Len(prefix.strip)), None)

\* lines 122-179: forms(similarTo)
Forms(w, a, sim) ==
    IF w.flags = None THEN <<w.stem>>
    ELSE
    LET suffixes == SelectSeq(Licensed(w.flags[1], a.SFX, w.stem),
                              LAMBDA x : SuffixSimilar(sim, x))
        prefixes == SelectSeq(Licensed(w.flags[1], a.PFX, w.stem),
                              LAMBDA x : PrefixSimilar(sim, x))
        cross == Flatten([i \in 1..Len(prefixes) |->
                    LET ok == SelectSeq(suffixes, LAMBDA x : CrossEligible(prefixes[i], x))
                    IN [j \in 1..Len(ok) |-> <<prefixes[i], ok[j]>>]])
    IN <<w.stem>>
       \o [i \in 1..Len(suffixes) |-> SuffixForm(w.stem, suffixes[i])]
       \o [i \in 1..Len(cross) |-> CrossForm(w.stem, cross[i][1], cross[i][2])]
       \o [i \in 1..Len(prefixes) |-> PrefixForm(w.stem, prefixes[i])]

(***************************************************************************)
(* The entries and rulesets given to forms().                              *)
(***************************************************************************)
StemChars == {"a", "b"}

Prefix(id, flag, strip, add, cond, x) ==
    [id |-> id, kind |-> "PFX", flag |-> flag, strip |-> strip, add |-> add,
     cond |-> cond, crossproduct |-> x]

Suffix(id, flag, strip, add, cond, x) ==
    [id |-> id, kind |-> "SFX", flag |-> flag, strip |-> strip, add |-> add,
     cond |-> cond, crossproduct |-> x]

\* the rulesets: three prefix and three suffix rules under the flags A, B, C,
\* with every choice of the crossproduct mark of each flag's header
FormAffs ==
    {[REP |-> <<>>, AM |-> AMTable,
      PFX |-> ("A" :> <<Prefix("pA1", "A", <<>>, <<"b">>, <<>>, x[1]),
                        Prefix("pA2", "A", <<"a">>, <<>>, <<"a">>, x[1])>>
               @@ "B" :> <<Prefix("pB1", "B", <<>>, <<"b">>, <<>>, x[2])>>),
      SFX |-> ("A" :> <<Suffix("sA1", "A", <<>>, <<"a">>, <<>>, x[3])>>
               @@ "C" :> <<Suffix("sC1", "C", <<"b">>, <<"a">>, <<"b">>, x[4]),
                           Suffix("sC2", "C", <<>>, <<>>, <<>>, x[4])>>)]
        : x \in [1..4 -> BOOLEAN]}

FlagNames == {"A", "B", "C"}

\* the flag sets in their insertion orders; a parsed flag segment is not empty
FlagSeqs ==
    {f \in UNION {[1..n -> FlagNames] : n \in 1..Cardinality(FlagNames)} :
        \A i, j \in 1..Len(f) : i # j => f[i] # f[j]}

FormLines ==
    {[stem |-> s, flags |-> f, data |-> <<>>] :
        s \in Strs(StemChars, 1, MaxStemLen),
        f \in {None} \cup {Some(q) : q \in FlagSeqs}}

SimArgs == {None} \cup {Some(t) : t \in Strs(StemChars, 0, MaxSimLen)}

(***************************************************************************)
(* Specification of forms().                                               *)
(***************************************************************************)
InitForms ==
    /\ line \in FormLines
    /\ aff \in FormAffs
    /\ word = WordNew(line, aff, <<>>).word
    /\ heap = <<>>
    /\ pc = "ready"
    /\ IdleForms /\ IdleFlagSets /\ IdleAffixForm /\ IdleLK

CallForms ==
    /\ pc = "ready"
    /\ \E sim \in SimArgs :
          /\ similarTo' = sim
          /\ res' = Forms(word, aff, sim)
    /\ UNCHANGED <<wordVars, flagSetsVars, affixFormVars, lkVars>>

NextForms == CallForms

SpecForms == InitForms /\ [][NextForms]_vars

(***************************************************************************)
(* Word.flagSets().                                                        *)
(***************************************************************************)
\* new Set(word.flags): a new Set object, with the word's flags
NewFlagSet(ref, w) == [ref |-> ref, elems |-> {w.flags[1][i] : i \in 1..Len(w.flags[1])}]

\* lines 186-188: the outer new Set() keeps objects by reference
FlagSets(ws) ==
    LET flagged == SelectSeq(ws, LAMBDA w : w.flags # None)
    IN ToSet([i \in 1..Len(flagged) |-> NewFlagSet(i, flagged[i])])

FlagSetWords ==
    {WordNew([stem |-> <<"a">>, flags |-> f, data |-> <<>>], EmptyAff, <<>>).word :
        f \in {None} \cup {Some(q) : q \in {<<"A">>, <<"B">>, <<"A", "B">>, <<"B", "A">>}}}

InitFlagSets ==
    /\ words \in UNION {[1..n -> FlagSetWords] : n \in 0..MaxWords}
    /\ flagSetsRet = None
    /\ IdleWord /\ IdleForms /\ IdleAffixForm /\ IdleLK

CallFlagSets ==
    /\ flagSetsRet' = Some(FlagSets(words))
    /\ UNCHANGED <<words, wordVars, formsVars, affixFormVars, lkVars>>

NextFlagSets == CallFlagSets

SpecFlagSets == InitFlagSets /\ [][NextFlagSets]_vars

(***************************************************************************)
(* AffixForm.                                                              *)
(***************************************************************************)
\* a ?? b on optional values
Nullish(a, b) == IF a = None THEN b ELSE a

\* lines 55-73: new AffixForm(text, stem, opts); text is a string or an LKWord
AffixFormNew(text, stem, o) ==
    [text |-> text.word,
     stem |-> Nullish(stem, Some(text.word))[1],
     prefix |-> o.prefix,
     suffix |-> o.suffix,
     prefix2 |-> o.prefix2,
     suffix2 |-> o.suffix2,
     inDictionary |-> o.inDictionary]

StringArg(str) == [tag |-> "string", word |-> str]
LKWordArg(str) == [tag |-> "LKWord", word |-> str]

AffixFormReplaceRedefaultsStem(self, o) ==
    AffixFormNew(Nullish(o.text, Some(StringArg(self.text)))[1],
                 o.stem,
                 [prefix |-> Nullish(o.prefix, self.prefix),
                  suffix |-> Nullish(o.suffix, self.suffix),
                  prefix2 |-> Nullish(o.prefix2, self.prefix2),
                  suffix2 |-> Nullish(o.suffix2, self.suffix2),
                  inDictionary |-> Nullish(o.inDictionary, self.inDictionary)])

\* lines 79-87: replace(opts)
AffixFormReplace(self, o) ==
    AffixFormNew(Nullish(o.text, Some(StringArg(self.text)))[1],
                 Nullish(o.stem, Some(self.stem)),
                 [prefix |-> Nullish(o.prefix, self.prefix),
                  suffix |-> Nullish(o.suffix, self.suffix),
                  prefix2 |-> Nullish(o.prefix2, self.prefix2),
                  suffix2 |-> Nullish(o.suffix2, self.suffix2),
                  inDictionary |-> Nullish(o.inDictionary, self.inDictionary)])

\* lines 90-92: get hasAffixes
HasAffixes(self) == self.suffix # None \/ self.prefix # None

\* lines 103-107: affixes()
Affixes(self) == self.prefix2 \o self.prefix \o self.suffix \o self.suffix2

\* Affix.has(flag)
AffixHas(affix, flag) == flag \in affix.flags

AffixFormHasSome(self, flag) ==
    IF ~HasAffixes(self) THEN FALSE
    ELSE \E i \in 1..Len(Affixes(self)) : AffixHas(Affixes(self)[i], flag)

\* lines 109-112: has(flag)
AffixFormHas(self, flag) ==
    IF ~HasAffixes(self) THEN FALSE
    ELSE \A i \in 1..Len(Affixes(self)) : AffixHas(Affixes(self)[i], flag)

Affix(id, flags) == [id |-> id, flags |-> flags]
DictWord == WordNew([stem |-> <<"a">>, flags |-> Some(<<"F">>), data |-> <<>>],
                    EmptyAff, <<>>).word
OtherDictWord == WordNew([stem |-> <<"b">>, flags |-> None, data |-> <<>>],
                         EmptyAff, <<>>).word

\* the arguments of the constructor
NewTexts == {StringArg("t1"), LKWordArg("t2")}
NewStems == {None, Some("s1")}
NewOpts ==
    [prefix : {None, Some(Affix("pF", {"F"})), Some(Affix("pG", {"G"}))},
     suffix : {None, Some(Affix("sF", {"F"})), Some(Affix("sFG", {"F", "G"}))},
     prefix2 : {None, Some(Affix("p2F", {"F"}))},
     suffix2 : {None, Some(Affix("s2G", {"G"}))},
     inDictionary : {None, Some(DictWord)}]

\* the arguments of replace()
ReplaceOpts ==
    [text : {None, Some(StringArg("t3")), Some(LKWordArg("t4"))},
     stem : {None, Some("s2"), Some("")},
     prefix : {None, Some(Affix("pFG", {"F", "G"}))},
     suffix : {None, Some(Affix("s0", {}))},
     prefix2 : {None, Some(Affix("p2G", {"G"}))},
     suffix2 : {None, Some(Affix("s2F", {"F"}))},
     inDictionary : {None, Some(OtherDictWord)}]

HasFlags == {"F", "G"}

InitAffixForm ==
    /\ \E t \in NewTexts, st \in NewStems, o \in NewOpts : form = AffixFormNew(t, st, o)
    /\ formCall = <<>>
    /\ formRet = <<>>
    /\ IdleWord /\ IdleForms /\ IdleFlagSets /\ IdleLK

CallReplace ==
    /\ formCall = <<>>
    /\ \E o \in ReplaceOpts :
          /\ formCall' = [op |-> "replace", opts |-> o]
          /\ formRet' = AffixFormReplace(form, o)
    /\ UNCHANGED <<form, wordVars, formsVars, flagSetsVars, lkVars>>

CallHas ==
    /\ formCall = <<>>
    /\ \E flag \in HasFlags :
          /\ formCall' = [op |-> "has", flag |-> flag]
          /\ formRet' = AffixFormHas(form, flag)
    /\ UNCHANGED <<form, wordVars, formsVars, flagSetsVars, lkVars>>

\* the caller is done with the returned value
ReturnAffixForm ==
    /\ formCall # <<>>
    /\ formCall' = <<>>
    /\ formRet' = <<>>
    /\ UNCHANGED <<form, wordVars, formsVars, flagSetsVars, lkVars>>

NextAffixForm == CallReplace \/ CallHas \/ ReturnAffixForm

SpecAffixForm == InitAffixForm /\ [][NextAffixForm]_vars

(***************************************************************************)
(* LKWord.                                                                 *)
(***************************************************************************)
\* String.prototype.replace(pat, repl) for a pattern that matches the literal
\* text pat.source: the first match only, unless the pattern is global
RECURSIVE ReplaceEvery(_, _, _)
ReplaceEvery(s, src, repl) ==
    IF Len(src) = 0
    THEN IF Len(s) = 0 THEN repl
         ELSE repl \o <<Head(s)>> \o ReplaceEvery(Tail(s), src, repl)
    ELSE LET i == IndexOf(s, src, 0)
         IN IF i < 0 THEN s
            ELSE SubSeq(s, 1, i) \o repl
                 \o ReplaceEvery(SubSeq(s, i + Len(src) + 1, Len(s)), src, repl)

ReplaceFirst(s, src, repl) ==
    LET i == IndexOf(s, src, 0)
    IN IF i < 0 THEN s
       ELSE SubSeq(s, 1, i) \o repl \o SubSeq(s, i + Len(src) + 1, Len(s))

JsReplace(s, pat, repl) ==
    IF pat.global THEN ReplaceEvery(s, pat.source, repl)
    ELSE ReplaceFirst(s, pat.source, repl)

\* String.prototype.replaceAll(pat, repl) for a string or a global pattern
JsReplaceAll(s, pat, repl) == ReplaceEvery(s, pat.source, repl)

\* lines 14-25: new LKWord(aff, dic, word, type, pos)
LKWordNew(a, d, w, type, pos) ==
    [aff |-> a, dic |-> d, word |-> w, type |-> type, pos |-> pos]

LKToDropsPos(self, w, captype) ==
    LKWordNew(self.aff, self.dic, w, Nullish(captype, Some(self.type))[1], None)

\* lines 32-34: to(word, captype = this.type)
LKTo(self, w, captype) ==
    LKWordNew(self.aff, self.dic, w, Nullish(captype, Some(self.type))[1], self.pos)

\* lines 41-43: shift(pos)
LKShift(self, pos) == LKWordNew(self.aff, self.dic, self.word, self.type, Some(pos))

\* lines 51-53: slice(from, to)
LKSlice(self, from, to) == LKTo(self, JsSlice(self.word, from, to), None)

\* lines 62-64: replace(pat, repl = "")
LKReplace(self, pat, repl) ==
    LKTo(self, JsReplace(self.word, pat, Nullish(repl, Some(<<>>))[1]), None)

\* lines 74-76: replaceAll(pat, repl = "")
LKReplaceAll(self, pat, repl) ==
    LKTo(self, JsReplaceAll(self.word, pat, Nullish(repl, Some(<<>>))[1]), None)

\* lines 84-87: add(str); str is a string or an LKWord
LKAdd(self, str) == LKTo(self, self.word \o str.word, None)

CapTypes == {"NO", "INIT", "ALL"}
CompoundPositions == {"BEGIN", "MIDDLE", "END"}
WordChars == {"a", "b"}
LKStrings == Strs(WordChars, 0, MaxWordLen)
OptIndexes == {None} \cup {Some(i) : i \in (-(MaxWordLen + 1))..(MaxWordLen + 1)}
OptRepls == {None, Some(<<"b">>), Some(<<"a", "a">>)}
RegExps == [source : LKStrings, global : BOOLEAN]

LKWords ==
    {LKWordNew(a, d, w, t, p) :
        a \in {"aff1", "aff2"}, d \in {"dic1", "dic2"}, w \in LKStrings,
        t \in CapTypes, p \in {None} \cup {Some(q) : q \in CompoundPositions}}

\* handles of another ruleset and dictionary, given to add()
OtherLKWords ==
    {LKWordNew("aff3", "dic3", w, "ALL", Some("END")) : w \in LKStrings}

InitLK ==
    /\ lk \in LKWords
    /\ lkCall = <<>>
    /\ lkRet = <<>>
    /\ IdleWord /\ IdleForms /\ IdleFlagSets /\ IdleAffixForm

LKFrame == UNCHANGED <<lk, wordVars, formsVars, flagSetsVars, affixFormVars>>

CallTo ==
    /\ lkCall = <<>>
    /\ \E w \in LKStrings, t \in {None} \cup {Some(c) : c \in CapTypes} :
          /\ lkCall' = [op |-> "to", word |-> w, captype |-> t]
          /\ lkRet' = LKTo(lk, w, t)
    /\ LKFrame

CallShift ==
    /\ lkCall = <<>>
    /\ \E p \in CompoundPositions :
          /\ lkCall' = [op |-> "shift", pos |-> p]
          /\ lkRet' = LKShift(lk, p)
    /\ LKFrame

CallSlice ==
    /\ lkCall = <<>>
    /\ \E from \in OptIndexes, to \in OptIndexes :
          /\ lkCall' = [op |-> "slice", from |-> from, to |-> to]
          /\ lkRet' = LKSlice(lk, from, to)
    /\ LKFrame

CallLKReplace ==
    /\ lkCall = <<>>
    /\ \E pat \in RegExps, repl \in OptRepls :
          /\ lkCall' = [op |-> "replace", pat |-> pat, repl |-> repl]
          /\ lkRet' = LKReplace(lk, pat, repl)
    /\ LKFrame

\* the pattern is a string (global: FALSE) or a global RegExp
CallLKReplaceAll ==
    /\ lkCall = <<>>
    /\ \E pat \in RegExps, repl \in OptRepls :
          /\ lkCall' = [op |-> "replaceAll", pat |-> pat, repl |-> repl]
          /\ lkRet' = LKReplaceAll(lk, pat, repl)
    /\ LKFrame

CallAdd ==
    /\ lkCall = <<>>
    /\ \E str \in {StringArg(w) : w \in LKStrings} \cup OtherLKWords :
          /\ lkCall' = [op |-> "add", str |-> str]
          /\ lkRet' = LKAdd(lk, str)
    /\ LKFrame

\* the caller is done with the returned handle
ReturnLK ==
    /\ lkCall # <<>>
    /\ lkCall' = <<>>
    /\ lkRet' = <<>>
    /\ LKFrame

NextLK ==
    CallTo \/ CallShift \/ CallSlice \/ CallLKReplace \/ CallLKReplaceAll \/ CallAdd
    \/ ReturnLK

SpecLK == InitLK /\ [][NextLK]_vars

(***************************************************************************)
(* Properties of the constructor.                                          *)
(***************************************************************************)
\* the values of the line's ph: tokens, in order
PhValues == 
    LET phs == SelectSeq(line.data, LAMBDA t : t.kind = "kv" /\ t.key = PH)
    IN [i \in 1..Len(phs) |-> phs[i].text]

\* the contents of data[k], empty when there is no such key
DataAt(k) == IF k \in DOMAIN DataMap(word) THEN heap[DataMap(word)[k]] ELSE {}

AltSpellingsOf(w) == IF w.altSpellings = None THEN {} ELSE w.altSpellings[1]

EndsStar(v) == Len(v) >= 1 /\ v[Len(v)] = "*"
ArrowAt(v, i) == i + 2 <= Len(v) /\ v[i + 1] = "-" /\ v[i + 2] = ">"
HasArrow(v) == \E i \in 0..Len(v) : ArrowAt(v, i)
FirstArrow(v) == CHOOSE i \in 0..Len(v) : ArrowAt(v, i) /\ \A j \in 0..(i - 1) : ~ArrowAt(v, j)
BeforeArrow(v) == SubSeq(v, 1, FirstArrow(v))
AfterArrow(v) == SubSeq(v, FirstArrow(v) + 3, Len(v))

\* what a ph: value with no trailing "*" is to register
PlainOrArrow(v) ==
    IF HasArrow(v)
    THEN [pattern |-> BeforeArrow(v),
          replacement |-> IF HasArrow(AfterArrow(v)) THEN BeforeArrow(AfterArrow(v))
                          ELSE AfterArrow(v)]
    ELSE [pattern |-> v, replacement |-> line.stem]

\* what a ph: value with the trailing wildcard is to register
Wildcard(v) ==
    [pattern |-> SubSeq(v, 1, Len(v) - 2),
     replacement |-> SubSeq(line.stem, 1, Len(line.stem) - 1)]

\* C3 as stated: after the constructor, data[k] is exactly the set of values
\* given with key k in the line (a repeated key accumulates its values), a key
\* is present only when it was given, and no two keys share one Set object.
C3_DataExact ==
    pc = "ready" =>
        /\ \A k \in Keys :
              DataAt(k) = {line.data[i].text : i \in {j \in 1..Len(line.data) :
                              line.data[j].kind = "kv" /\ line.data[j].key = k}}
        /\ \A k1, k2 \in DOMAIN DataMap(word) :
              k1 # k2 => DataMap(word)[k1] # DataMap(word)[k2]

\* C4: every ph: token registers exactly one pattern, in order; a value with
\* no trailing "*" registers (from, to) split at the arrow when it has one and
\* (value, stem) otherwise, and altSpellings holds exactly the values that
\* have neither (it stays undefined when there are none).
C4_PhPlainAndArrow ==
    pc = "ready" =>
        /\ Len(aff.REP) = Len(PhValues)
        /\ \A i \in 1..Len(PhValues) :
              ~EndsStar(PhValues[i]) => aff.REP[i] = PlainOrArrow(PhValues[i])
        /\ LET plain == {PhValues[i] : i \in {j \in 1..Len(PhValues) :
                            ~EndsStar(PhValues[j]) /\ ~HasArrow(PhValues[j])}}
           IN word.altSpellings = IF plain = {} THEN None ELSE Some(plain)

\* a line with an arrow token and a plain token has been parsed
C4_Witness ==
    /\ pc = "ready"
    /\ \E i, j \in 1..Len(PhValues) :
          /\ HasArrow(PhValues[i]) /\ ~EndsStar(PhValues[i])
          /\ ~HasArrow(PhValues[j]) /\ ~EndsStar(PhValues[j])
          /\ aff.REP[j].replacement = line.stem
          /\ PhValues[j] \in AltSpellingsOf(word)

\* C9 as amended: a ph: value ending with the one-character marker "*"
\* registers (value without its last 2 characters, stem without its last
\* character) and adds nothing to altSpellings; a value not ending with "*" is
\* handled by the arrow or the plain branch.
C9_WildcardStar ==
    pc = "ready" =>
        /\ Len(aff.REP) = Len(PhValues)
        /\ \A i \in 1..Len(PhValues) :
              IF EndsStar(PhValues[i])
              THEN /\ aff.REP[i] = Wildcard(PhValues[i])
                   /\ PhValues[i] \notin AltSpellingsOf(word)
              ELSE /\ aff.REP[i] = PlainOrArrow(PhValues[i])
                   /\ HasArrow(PhValues[i]) \/ PhValues[i] \in AltSpellingsOf(word)

\* a value of three characters ending with "*" has been parsed
C9_Witness ==
    /\ pc = "ready"
    /\ \E i \in 1..Len(PhValues) :
          /\ EndsStar(PhValues[i]) /\ Len(PhValues[i]) = 3
          /\ aff.REP[i].pattern = <<PhValues[i][1]>>

\* C9 as stated: there is a two-character marker such that a ph: value is
\* handled by the wildcard branch when it ends with the marker, and by the
\* arrow or plain branch when it does not.
C9_TwoCharMarker ==
    pc = "ready" =>
        \E marker \in Strs(ValueChars, 2, 2) :
            \A i \in 1..Len(PhValues) :
                IF EndsWith(PhValues[i], marker)
                THEN /\ aff.REP[i] = Wildcard(PhValues[i])
                     /\ PhValues[i] \notin AltSpellingsOf(word)
                ELSE /\ aff.REP[i] = PlainOrArrow(PhValues[i])
                     /\ HasArrow(PhValues[i]) \/ PhValues[i] \in AltSpellingsOf(word)

\* the numeric tokens of the line that resolve (1-based) to an alias
ResolvingTexts ==
    {line.data[i].text : i \in {j \in 1..Len(line.data) :
        /\ line.data[j].kind = "raw"
        /\ IsNumeric(line.data[j].text)
        /\ ParseInt(line.data[j].text) \in 1..Len(aff.AM)}}

\* C10 as stated: a numeric token n that resolves to an alias leaves data[n]
\* equal to the component strings of the alias; a line of tokens that are
\* neither key:value nor such a number leaves data undefined.
C10_AliasRecorded ==
    pc = "ready" =>
        /\ \A n \in ResolvingTexts : DataAt(n) = aff.AM[ParseInt(n)]
        /\ (ResolvingTexts = {} /\ \A i \in 1..Len(line.data) : line.data[i].kind = "raw")
              => word.data = None

(***************************************************************************)
(* Properties of forms().                                                  *)
(***************************************************************************)
Range(q) == {q[i] : i \in 1..Len(q)}

AllRules(table) == UNION {Range(table[f]) : f \in DOMAIN table}

\* the rules of a table licensed by the entry's flags and relevant to its stem
LicensedRules(table) ==
    IF word.flags = None THEN {}
    ELSE {r \in AllRules(table) :
            /\ r.flag \in Range(word.flags[1])
            /\ IF r.kind = "PFX"
               THEN Len(r.cond) <= Len(word.stem)
                    /\ SubSeq(word.stem, 1, Len(r.cond)) = r.cond
               ELSE Len(r.cond) <= Len(word.stem)
                    /\ SubSeq(word.stem, Len(word.stem) - Len(r.cond) + 1,
                              Len(word.stem)) = r.cond}

\* the stem with np characters trimmed from the start and ns from the end
Trimmed(np, ns) == SubSeq(word.stem, np + 1, Len(word.stem) - ns)

Combined(p, s) == p.add \o Trimmed(Len(p.strip), Len(s.strip)) \o s.add
SuffixOnly(s) == Trimmed(0, Len(s.strip)) \o s.add
PrefixOnly(p) == p.add \o Trimmed(Len(p.strip), 0)

EligiblePairs ==
    {pr \in LicensedRules(aff.PFX) \X LicensedRules(aff.SFX) :
        pr[1].crossproduct /\ pr[2].crossproduct}

\* the number of positions lo..hi of res that hold the string t
Count(lo, hi, t) == Cardinality({i \in lo..hi : res[i] = t})

FormsCalled == pc = "ready" /\ res # <<>>

\* C1 as stated: with no similarTo, a pair's combined form is in the result
\* if and only if both rules are cross-product eligible, and the single-affix
\* forms are in the result whatever the eligibility.
C1_CombinedIffEligible ==
    (FormsCalled /\ similarTo = None) =>
        /\ \A p \in LicensedRules(aff.PFX), s \in LicensedRules(aff.SFX) :
              (Combined(p, s) \in Range(res)) <=> (p.crossproduct /\ s.crossproduct)
        /\ \A s \in LicensedRules(aff.SFX) : SuffixOnly(s) \in Range(res)
        /\ \A p \in LicensedRules(aff.PFX) : PrefixOnly(p) \in Range(res)

\* C1 as amended: with no similarTo the result is the stem, then one
\* single-suffix form for every licensed suffix, then one combined form for
\* every licensed pair whose rules are both cross-product eligible (and none
\* for any other pair), then one single-prefix form for every licensed
\* prefix: nothing else, so no form carries more than one prefix and one
\* suffix.
C1_FormsExact ==
    (FormsCalled /\ similarTo = None) =>
        LET P == LicensedRules(aff.PFX)
            S == LicensedRules(aff.SFX)
            X == EligiblePairs
            nS == Cardinality(S)
            nX == Cardinality(X)
            nP == Cardinality(P)
        IN /\ Len(res) = 1 + nS + nX + nP
           /\ res[1] = word.stem
           /\ \A t \in Range(res) \cup {SuffixOnly(s) : s \in S} :
                 Count(2, 1 + nS, t) = Cardinality({s \in S : SuffixOnly(s) = t})
           /\ \A t \in Range(res) \cup {Combined(x[1], x[2]) : x \in X} :
                 Count(2 + nS, 1 + nS + nX, t)
                     = Cardinality({x \in X : Combined(x[1], x[2]) = t})
           /\ \A t \in Range(res) \cup {PrefixOnly(p) : p \in P} :
                 Count(2 + nS + nX, 1 + nS + nX + nP, t)
                     = Cardinality({p \in P : PrefixOnly(p) = t})

\* forms() has run on an entry with an eligible and an ineligible pair
C1_Witness ==
    /\ FormsCalled /\ similarTo = None
    /\ EligiblePairs # {}
    /\ \E p \in LicensedRules(aff.PFX), s \in LicensedRules(aff.SFX) :
          /\ ~(p.crossproduct /\ s.crossproduct)
          /\ Len(p.strip) > 0 /\ Len(s.strip) > 0
    /\ Len(res) > 1 + Cardinality(LicensedRules(aff.PFX))
                    + Cardinality(LicensedRules(aff.SFX))

\* the licensed rules whose add-text matches the similarTo string
MatchingSuffixes ==
    {s \in LicensedRules(aff.SFX) :
        /\ Len(s.add) <= Len(similarTo[1])
        /\ SubSeq(similarTo[1], Len(similarTo[1]) - Len(s.add) + 1, Len(similarTo[1])) = s.add}

MatchingPrefixes ==
    {p \in LicensedRules(aff.PFX) :
        /\ Len(p.add) <= Len(similarTo[1])
        /\ SubSeq(similarTo[1], 1, Len(p.add)) = p.add}

\* C2 as stated: whenever a similarTo string is given, of any length, the
\* result starts with the stem, every other element is built from matching
\* suffixes and prefixes only, and with no matching affix the result is
\* exactly [stem].
C2_SimilarToPrunes ==
    (FormsCalled /\ similarTo # None) =>
        /\ res[1] = word.stem
        /\ \A i \in 2..Len(res) :
              \/ \E s \in MatchingSuffixes : res[i] = SuffixOnly(s)
              \/ \E p \in MatchingPrefixes : res[i] = PrefixOnly(p)
              \/ \E p \in MatchingPrefixes, s \in MatchingSuffixes : res[i] = Combined(p, s)
        /\ (MatchingSuffixes = {} /\ MatchingPrefixes = {}) => res = <<word.stem>>

(***************************************************************************)
(* Properties of flagSets().                                               *)
(***************************************************************************)
\* C5 as stated: the result holds one element for every distinct (by
\* content) flag set among the entries that have flags, and nothing else.
C5_DistinctFlagSets ==
    flagSetsRet # None =>
        LET distinct == {Range(words[i].flags[1]) :
                            i \in {j \in 1..Len(words) : words[j].flags # None}}
        IN /\ Len(flagSetsRet[1]) = Cardinality(distinct)
           /\ {flagSetsRet[1][i].elems : i \in 1..Len(flagSetsRet[1])} = distinct

(***************************************************************************)
(* Properties of AffixForm.                                                *)
(***************************************************************************)
FormFields == {"text", "stem", "prefix", "suffix", "prefix2", "suffix2", "inDictionary"}

\* C6: replace(overrides) leaves the instance as it was and returns an
\* instance whose every field has the override's value when the overrides
\* give one (the wrapped string for a text given as an LKWord) and the
\* original's value when they do not; a stem not given stays the original
\* stem, whatever the new text.
C6_ReplaceCarriesOver ==
    [][(formCall' # <<>> /\ formCall'.op = "replace") =>
          LET o == formCall'.opts
          IN /\ form' = form
             /\ formRet'.text = IF o.text = None THEN form.text ELSE o.text[1].word
             /\ formRet'.stem = IF o.stem = None THEN form.stem ELSE o.stem[1]
             /\ formRet'.prefix = IF o.prefix = None THEN form.prefix ELSE o.prefix
             /\ formRet'.suffix = IF o.suffix = None THEN form.suffix ELSE o.suffix
             /\ formRet'.prefix2 = IF o.prefix2 = None THEN form.prefix2 ELSE o.prefix2
             /\ formRet'.suffix2 = IF o.suffix2 = None THEN form.suffix2 ELSE o.suffix2
             /\ formRet'.inDictionary = IF o.inDictionary = None THEN form.inDictionary
                                        ELSE o.inDictionary
             /\ DOMAIN formRet' = FormFields]_vars

\* replace() was given a new text and no stem, on an instance whose stem
\* differs from its text
C6_Witness ==
    /\ formCall # <<>> /\ formCall.op = "replace"
    /\ formCall.opts.text # None /\ formCall.opts.stem = None
    /\ formCall.opts.suffix # None /\ formCall.opts.prefix = None
    /\ form.stem # form.text /\ form.prefix # None
    /\ formRet.stem = form.stem /\ formRet.text # form.text
    /\ formRet.prefix = form.prefix /\ formRet.suffix # form.suffix

\* C7: has(flag) is false when neither the outer prefix nor the outer suffix
\* is present, whatever the inner affixes carry; otherwise it is true exactly
\* when every present affix among prefix2, prefix, suffix, suffix2 carries
\* the flag.
C7_HasEveryAffix ==
    (formCall # <<>> /\ formCall.op = "has") =>
        formRet =
            IF form.prefix = None /\ form.suffix = None THEN FALSE
            ELSE \A a \in {form.prefix2, form.prefix, form.suffix, form.suffix2} :
                    a # None => formCall.flag \in a[1].flags

\* has() answered false for a flag that the outer affixes carry and an inner
\* affix lacks
C7_Witness ==
    /\ formCall # <<>> /\ formCall.op = "has"
    /\ form.prefix # None /\ formCall.flag \in form.prefix[1].flags
    /\ form.suffix # None /\ formCall.flag \in form.suffix[1].flags
    /\ form.suffix2 # None /\ formCall.flag \notin form.suffix2[1].flags
    /\ formRet = FALSE

(***************************************************************************)
(* Properties of LKWord.                                                   *)
(***************************************************************************)
\* C8: a call of to, shift, slice, replace, replaceAll or add leaves the
\* handle's word, type, pos, aff and dic as they were and returns a handle
\* with the same aff and dic; to, slice, replace, replaceAll and add keep pos
\* and keep type unless to is given one; shift changes pos only.
C8_HandleImmutable ==
    [][lkCall' # <<>> =>
          /\ lk' = lk
          /\ lkRet'.aff = lk.aff
          /\ lkRet'.dic = lk.dic
          /\ IF lkCall'.op = "shift"
             THEN /\ lkRet'.pos = Some(lkCall'.pos)
                  /\ lkRet'.word = lk.word
                  /\ lkRet'.type = lk.type
             ELSE /\ lkRet'.pos = lk.pos
                  /\ lkRet'.type = IF lkCall'.op = "to" /\ lkCall'.captype # None
                                   THEN lkCall'.captype[1]
                                   ELSE lk.type]_vars

\* slice(0, 1) has returned a shorter word for a handle with a position
C8_Witness ==
    /\ lkCall # <<>> /\ lkCall.op = "slice"
    /\ lkCall.from = Some(0) /\ lkCall.to = Some(1)
    /\ Len(lk.word) = 2 /\ lk.pos # None
    /\ lkRet.word = <<lk.word[1]>> /\ lkRet.pos = lk.pos

====
